---- MODULE Spec2Model ----
(***************************************************************************)
(* Model of bem_saude: first bem_saude.api.auth, then the patients'        *)
(* repository (RepositorioPaciente), which stand apart.                    *)
(* bem_saude.api.auth: the process-wide JWKS cache (_jwks_cache),          *)
(* its loader _obter_jwks and the FastAPI dependency validar_token, run by *)
(* several requests at once (a sync dependency runs in the thread pool,    *)
(* one thread per request in progress).  The objects response.json()      *)
(* builds are written by nothing after their construction, so a reference  *)
(* to one is modelled by its value.                                        *)
(* Every step of a request is one point where the interpreter may switch  *)
(* threads and another thread's effect can be seen: the cache test, the    *)
(* HTTP request, its response, the store of the global and the return.     *)
(* What follows the call of _obter_jwks reads only locals and objects that *)
(* nothing writes after their construction, and is one step.               *)
(***************************************************************************)
EXTENDS Integers, Sequences, FiniteSets, TLC

VARIABLES
    _jwks_cache,   \* the module global: None or the parsed body it refers to
    published,     \* which key set the provider serves now (it rotates)
    now,           \* wall clock
    fetchedAt,     \* history: clock value of the last store into the cache
    pc,            \* per request: position in validar_token
    token,         \* per request: credentials.credentials, once the call has
                   \* read it (line 58) or has ended without reading it
    resp,          \* per request: the object response.json() returned
    jwks,          \* per request: the local jwks of validar_token
    outcome,       \* per request: how validar_token ended
    seen,          \* history, per request: how the test of line 31 went
    found,         \* history, per request: the cache the test of line 31 read
    issued,        \* history, per request: HTTP requests this call has sent
    atFail,        \* history, per request: the cache when its fetch raised
    payload,       \* per request: the value validar_token returned (line 90)
    pacientes,     \* the table 'pacientes': per id, its row or None
    chamada,       \* the last call of the repository: method, id, result
    criado,        \* history, per id: id, cpf, data_nascimento at creation
    ultimo         \* history, per id: the last of remover / ativar applied

authVars == << _jwks_cache, published, now, fetchedAt, pc, token, resp, jwks,
               outcome, seen, found, issued, atFail, payload >>

repoVars == << pacientes, chamada, criado, ultimo >>

vars == << authVars, repoVars >>

-----------------------------------------------------------------------------
(* Bounds of the model. *)

MaxCalls == 2     \* requests, each one call of validar_token, in one behaviour
MaxTime  == 1     \* last clock value
TTL      == 0     \* freshness threshold of the specification; the code has none
MaxPacientes == 2 \* patients created in one behaviour

Threads == 1 .. MaxCalls
None    == [none |-> TRUE]

-----------------------------------------------------------------------------
(* Data: key records, key-set bodies, tokens. *)

Key(k, m) == [kty |-> "RSA", kid |-> k, use |-> "sig", n |-> m, e |-> "AQAB"]

\* The fields validar_token copies out of a matching record, in its order.
KeyFields == << "kty", "kid", "use", "n", "e" >>

\* The key sets the provider publishes: version 1, then version 2 after it
\* has added the key k2.
KS1 == [has_keys |-> TRUE, keys |-> << Key("k1", "m1") >>]
KS2 == [has_keys |-> TRUE,
        keys |-> << Key("k1", "m1"), Key("k2", "m2") >>]

PublishedSet(v) == IF v = 1 THEN KS1 ELSE KS2

\* Bodies that parse as JSON objects and are not a key set: a record without
\* "kid" ahead of a good one, a record for k1 without "use", and an object
\* without "keys" (an error document).
BodyNoKid    == [has_keys |-> TRUE,
                 keys |-> << [kty |-> "RSA", use |-> "sig", n |-> "m9",
                              e |-> "AQAB"],
                             Key("k1", "m1") >>]
BodyNoUse    == [has_keys |-> TRUE,
                 keys |-> << [kty |-> "RSA", kid |-> "k1", n |-> "m1",
                              e |-> "AQAB"] >>]
BodyNoKeys   == [has_keys |-> FALSE, keys |-> << >>]

MalformedBodies == { BodyNoKid, BodyNoUse, BodyNoKeys }
KeySets         == { KS1, KS2 }

\* A body is a key set when its "keys" are full records.
IsKeySet(b) ==
    /\ b # None
    /\ b.has_keys
    /\ \A j \in 1 .. Len(b.keys) :
          \A f \in {"kty", "kid", "use", "n", "e"} : f \in DOMAIN b.keys[j]

Holds(b, k) == \E j \in 1 .. Len(b.keys) :
                  "kid" \in DOMAIN b.keys[j] /\ b.keys[j].kid = k

Issuer   == "https://tenant/"
Audience == "api"
FarExp   == MaxTime + 1

\* A bearer token: wf is whether it has the three-part structure with a JSON
\* header; sig is the key material whose private half signed it.
Tok(wf, alg, kid, sig, iss, aud, exp) ==
    [wf |-> wf, alg |-> alg, kid |-> kid, sig |-> sig, iss |-> iss,
     aud |-> aud, exp |-> exp]

TokGood1     == Tok(TRUE, "RS256", "k1", "m1", Issuer, {Audience}, FarExp)
TokGood2     == Tok(TRUE, "RS256", "k2", "m2", Issuer, {Audience, "other"},
                    FarExp)
TokMalformed == Tok(FALSE, "RS256", "k1", "m1", Issuer, {Audience}, FarExp)
TokHS256     == Tok(TRUE, "HS256", "k1", "m1", Issuer, {Audience}, FarExp)
\* Tokens that differ from TokGood1 in one thing jwt.decode checks.
TokBadSig    == Tok(TRUE, "RS256", "k1", "mX", Issuer, {Audience}, FarExp)
TokBadIss    == Tok(TRUE, "RS256", "k1", "m1", "https://evil/", {Audience},
                    FarExp)
TokBadAud    == Tok(TRUE, "RS256", "k1", "m1", Issuer, {"other"}, FarExp)
TokShort     == Tok(TRUE, "RS256", "k1", "m1", Issuer, {Audience}, 0)
\* A forged signature over claims that are wrong as well.
TokBadSigIss == Tok(TRUE, "RS256", "k1", "mX", "https://evil/", {Audience},
                    FarExp)

\* The tokens the requests carry.
Tokens == { TokGood1, TokGood2, TokMalformed, TokHS256 }

\* The tokens of the requests that come one after the other: the good ones
\* and the ones that fail one check of jwt.decode.
SeqTokens == { TokGood1, TokGood2, TokBadSig, TokBadIss, TokBadAud, TokShort,
               TokBadSigIss }

NoToken == Tok(FALSE, "", "", "", "", {}, 0)

-----------------------------------------------------------------------------
(* jose.jwt.decode as validar_token calls it: algorithms = ["RS256"], the   *)
(* audience and the issuer of the configuration, default options (leeway 0). *)
(* The result names the check that raised; "ok" is a returned payload.      *)

Leeway == 0

\* Variant of JwtDecode: the audience claim must be the expected audience
\* and nothing else.
JwtDecodeAudienceAlone(tok, key, t) ==
    IF tok.alg # "RS256" THEN "alg"
    ELSE IF tok.sig # key.n THEN "signature"
    ELSE IF tok.exp < t - Leeway THEN "exp"
    ELSE IF tok.aud # {Audience} THEN "aud"
    ELSE IF tok.iss # Issuer THEN "iss"
    ELSE "ok"

JwtDecode(tok, key, t) ==
    IF tok.alg # "RS256" THEN "alg"
    ELSE IF tok.sig # key.n THEN "signature"
    ELSE IF tok.exp < t - Leeway THEN "exp"
    ELSE IF Audience \notin tok.aud THEN "aud"
    ELSE IF tok.iss # Issuer THEN "iss"
    ELSE "ok"

\* jwks.get("keys", []) of line 63.
KeysOf(b) == IF b.has_keys THEN b.keys ELSE << >>

HasAllFields(key) == \A j \in 1 .. Len(KeyFields) : KeyFields[j] \in DOMAIN key

\* The loop of lines 63-72 from position j on: the index of the record whose
\* kid is the token's, 0 when the loop ends without one, -1 when a subscript
\* raises KeyError (key["kid"] of line 64, or one of lines 66-70).
RECURSIVE FindKey(_, _, _)
FindKey(keys, kid, j) ==
    IF j > Len(keys) THEN 0
    ELSE IF "kid" \notin DOMAIN keys[j] THEN -1
    ELSE IF keys[j].kid # kid THEN FindKey(keys, kid, j + 1)
    ELSE IF ~HasAllFields(keys[j]) THEN -1
    ELSE j

\* Lines 58-103 on the key set b at time t: how validar_token ends.
\*   get_unverified_header raises JWTError on a token without the JWT
\*   structure: the 401 of line 94.  KeyError is caught by neither except
\*   clause.  An empty rsa_key raises the 401 of line 76, an HTTPException,
\*   which passes both except clauses.  Any JWTError of jwt.decode becomes the
\*   401 of line 94.
Validate(tok, b, t) ==
    IF ~tok.wf THEN "401 invalido"
    ELSE LET j == FindKey(KeysOf(b), tok.kid, 1) IN
           IF j = -1 THEN "raised"
           ELSE IF j = 0 THEN "401 chave"
           ELSE IF JwtDecode(tok, KeysOf(b)[j], t) = "ok" THEN "payload"
           ELSE "401 invalido"

\* The claims of a token: json.loads of its payload segment, which jwt.decode
\* returns once every check has passed.
Claims(tok) == [iss |-> tok.iss, aud |-> tok.aud, exp |-> tok.exp]

\* What line 90 returns; None when validar_token ends by an exception.
Returned(tok, b, t) ==
    IF Validate(tok, b, t) = "payload" THEN Claims(tok) ELSE None

Stale == _jwks_cache # None /\ now - fetchedAt > TTL

-----------------------------------------------------------------------------
(* Data of the patients' repository. *)

\* The ids uuid7() gives, in the order of creation; 0 is an id never given.
Ids   == 1 .. MaxPacientes
AnyId == 0 .. MaxPacientes

\* StatusCadastro.ATIVO.value and StatusCadastro.INATIVO.value.
ATIVO   == "ATIVO"
INATIVO == "INATIVO"

\* The column values criar_paciente gives the ModeloPaciente it hands to
\* criar, but for id and status; data_nascimento is a date, or None when the
\* request has none.
Cadastro(nome, cpf, telefone, endereco, email, nasc, obs) ==
    [nome |-> nome, cpf |-> cpf, telefone |-> telefone,
     endereco |-> endereco, email |-> email, data_nascimento |-> nasc,
     observacoes |-> obs]

Cadastros ==
    { Cadastro("Ana", "111", "t1", "e1", "m1", "1990-05-15", "o1"),
      Cadastro("Bia", "222", "t2", "e2", "m2", None, "") }

\* The ModeloPaciente criar_paciente builds (lines 58-68).
ModeloPaciente(id, c) ==
    [id |-> id, nome |-> c.nome, cpf |-> c.cpf, telefone |-> c.telefone,
     endereco |-> c.endereco, email |-> c.email,
     data_nascimento |-> c.data_nascimento, observacoes |-> c.observacoes,
     status |-> ATIVO]

\* The arguments of editar.
Edicoes ==
    { [nome |-> "Ana", telefone |-> "t9", endereco |-> "e9", email |-> "m9",
       observacoes |-> "o9"],
      [nome |-> "Eva", telefone |-> "t1", endereco |-> "e1", email |-> "m1",
       observacoes |-> ""] }

Chamada(op, id, ret) == [op |-> op, id |-> id, ret |-> ret]

\* query(ModeloPaciente).filter(ModeloPaciente.id == id).first()
Primeiro(id) == IF id \in Ids THEN pacientes[id] ELSE None

\* The unique constraint on cpf: some row has this cpf.
CpfExiste(cpf) ==
    \E i \in Ids : pacientes[i] # None /\ pacientes[i].cpf = cpf

-----------------------------------------------------------------------------
Init ==
    /\ _jwks_cache = None
    /\ published = 1
    /\ now = 0
    /\ fetchedAt = 0
    /\ pc = [t \in Threads |-> "idle"]
    /\ token = [t \in Threads |-> NoToken]
    /\ resp = [t \in Threads |-> None]
    /\ jwks = [t \in Threads |-> None]
    /\ outcome = [t \in Threads |-> "none"]
    /\ seen = [t \in Threads |-> "none"]
    /\ found = [t \in Threads |-> None]
    /\ issued = [t \in Threads |-> 0]
    /\ atFail = [t \in Threads |-> None]
    /\ payload = [t \in Threads |-> None]
    /\ pacientes = [i \in Ids |-> None]
    /\ chamada = Chamada("nenhuma", 0, "-")
    /\ criado = [i \in Ids |-> None]
    /\ ultimo = [i \in Ids |-> "nenhum"]

\* validar_token ends: it returns, or an exception leaves it.
End(t, how) ==
    /\ pc' = [pc EXCEPT ![t] = "done"]
    /\ outcome' = [outcome EXCEPT ![t] = how]

\* The bearer token of request t.  Line 52 binds it and nothing reads it
\* before get_unverified_header at line 58, so it is drawn where it is first
\* read, or where the call ends without having read it.
Bearer(t, tok) ==
    /\ token' = [token EXCEPT ![t] = tok]

\* A request arrives and validar_token calls _obter_jwks (lines 52-55).
\* Requests are numbered in the order of their arrival.
Start(t) ==
    /\ pc[t] = "idle"
    /\ \A u \in Threads : u < t => pc[u] # "idle"
    /\ pc' = [pc EXCEPT ![t] = "check"]
    /\ UNCHANGED << _jwks_cache, published, now, fetchedAt, token, resp,
                    jwks, outcome, seen, found, issued, atFail, payload,
                    repoVars >>

\* Variant of Check: the return of line 32 is missing, so a call that finds
\* the cache set goes on to the fetch.
CheckFallsThrough(t) ==
    /\ pc[t] = "check"
    /\ found' = [found EXCEPT ![t] = _jwks_cache]
    /\ seen' = [seen EXCEPT ![t] = IF _jwks_cache = None THEN "empty"
                                   ELSE IF Stale THEN "stale" ELSE "fresh"]
    /\ pc' = [pc EXCEPT ![t] = "get"]
    /\ UNCHANGED << _jwks_cache, published, now, fetchedAt, token, resp,
                    jwks, outcome, issued, atFail, payload, repoVars >>

\* Variant of Check: a cache older than TTL counts as empty.
CheckExpires(t) ==
    /\ pc[t] = "check"
    /\ found' = [found EXCEPT ![t] = _jwks_cache]
    /\ IF _jwks_cache # None /\ ~Stale
         THEN /\ jwks' = [jwks EXCEPT ![t] = _jwks_cache]
              /\ seen' = [seen EXCEPT ![t] = "fresh"]
              /\ pc' = [pc EXCEPT ![t] = "validate"]
         ELSE /\ seen' = [seen EXCEPT ![t] = IF Stale THEN "stale" ELSE "empty"]
              /\ pc' = [pc EXCEPT ![t] = "get"]
              /\ UNCHANGED jwks
    /\ UNCHANGED << _jwks_cache, published, now, fetchedAt, token, resp,
                    outcome, issued, atFail, payload, repoVars >>

\* _obter_jwks, lines 31-32: a cache that is not None is returned as it is.
\* The test and the return read the global twice; it never goes back to None,
\* so the value returned is the one of the second read.
Check(t) ==
    /\ pc[t] = "check"
    /\ found' = [found EXCEPT ![t] = _jwks_cache]
    /\ IF _jwks_cache # None
         THEN /\ jwks' = [jwks EXCEPT ![t] = _jwks_cache]
              /\ seen' = [seen EXCEPT ![t] = IF Stale THEN "stale" ELSE "fresh"]
              /\ pc' = [pc EXCEPT ![t] = "validate"]
         ELSE /\ seen' = [seen EXCEPT ![t] = "empty"]
              /\ pc' = [pc EXCEPT ![t] = "get"]
              /\ UNCHANGED jwks
    /\ UNCHANGED << _jwks_cache, published, now, fetchedAt, token, resp,
                    outcome, issued, atFail, payload, repoVars >>

\* Line 37: the request goes out.
Get(t) ==
    /\ pc[t] = "get"
    /\ issued' = [issued EXCEPT ![t] = @ + 1]
    /\ pc' = [pc EXCEPT ![t] = "inflight"]
    /\ UNCHANGED << _jwks_cache, published, now, fetchedAt, token, resp,
                    jwks, outcome, seen, found, atFail, payload, repoVars >>

\* Variant of RespNetworkError: the failed fetch also resets the global.
RespNetworkErrorClears(t) ==
    /\ pc[t] = "inflight"
    /\ \E tok \in Tokens : Bearer(t, tok)
    /\ End(t, "503")
    /\ atFail' = [atFail EXCEPT ![t] = _jwks_cache]
    /\ _jwks_cache' = None
    /\ UNCHANGED << published, now, fetchedAt, resp, jwks, seen, found,
                    issued, payload, repoVars >>

\* Line 37 raises: connection error or the 10 s timeout, both httpx.HTTPError,
\* caught at line 98.
RespNetworkError(t) ==
    /\ pc[t] = "inflight"
    /\ \E tok \in Tokens : Bearer(t, tok)
    /\ End(t, "503")
    /\ atFail' = [atFail EXCEPT ![t] = _jwks_cache]
    /\ UNCHANGED << _jwks_cache, published, now, fetchedAt, resp, jwks,
                    seen, found, issued, payload, repoVars >>

\* Line 38: raise_for_status raises httpx.HTTPStatusError, caught at line 98.
RespBadStatus(t) ==
    /\ pc[t] = "inflight"
    /\ \E tok \in Tokens : Bearer(t, tok)
    /\ End(t, "503")
    /\ atFail' = [atFail EXCEPT ![t] = _jwks_cache]
    /\ UNCHANGED << _jwks_cache, published, now, fetchedAt, resp, jwks,
                    seen, found, issued, payload, repoVars >>

\* Line 39: response.json() raises json.JSONDecodeError, a ValueError, which
\* neither except clause of validar_token catches.
RespNotJson(t) ==
    /\ pc[t] = "inflight"
    /\ \E tok \in Tokens : Bearer(t, tok)
    /\ End(t, "raised")
    /\ atFail' = [atFail EXCEPT ![t] = _jwks_cache]
    /\ UNCHANGED << _jwks_cache, published, now, fetchedAt, resp, jwks,
                    seen, found, issued, payload, repoVars >>

\* Line 39, right-hand side: response.json() builds a new object from the body,
\* the provider's current key set or some other JSON document.
RespJson(t) ==
    /\ pc[t] = "inflight"
    /\ \E b \in {PublishedSet(published)} \cup MalformedBodies :
          resp' = [resp EXCEPT ![t] = b]
    /\ pc' = [pc EXCEPT ![t] = "store"]
    /\ UNCHANGED << _jwks_cache, published, now, fetchedAt, token, jwks,
                    outcome, seen, found, issued, atFail, payload, repoVars >>

\* Variant of Store: a cache that is already set is updated in place with the
\* new keys, which every local that refers to the same object sees.
StoreInPlace(t) ==
    /\ pc[t] = "store"
    /\ LET merged == IF _jwks_cache = None THEN resp[t]
                     ELSE [has_keys |-> TRUE,
                           keys |-> KeysOf(_jwks_cache) \o KeysOf(resp[t])]
       IN /\ _jwks_cache' = merged
          /\ jwks' = [u \in Threads |->
                        IF jwks[u] # None /\ jwks[u] = _jwks_cache
                          THEN merged ELSE jwks[u]]
    /\ fetchedAt' = now
    /\ resp' = [resp EXCEPT ![t] = None]
    /\ pc' = [pc EXCEPT ![t] = "ret"]
    /\ UNCHANGED << published, now, token, outcome, seen, found, issued,
                    atFail, payload, repoVars >>

\* Line 39, the assignment: the global is rebound to the new object.
Store(t) ==
    /\ pc[t] = "store"
    /\ _jwks_cache' = resp[t]
    /\ fetchedAt' = now
    /\ resp' = [resp EXCEPT ![t] = None]
    /\ pc' = [pc EXCEPT ![t] = "ret"]
    /\ UNCHANGED << published, now, token, jwks, outcome, seen, found,
                    issued, atFail, payload, repoVars >>

\* Line 40 and line 55: the global is read again and becomes the local jwks.
Ret(t) ==
    /\ pc[t] = "ret"
    /\ jwks' = [jwks EXCEPT ![t] = _jwks_cache]
    /\ pc' = [pc EXCEPT ![t] = "validate"]
    /\ UNCHANGED << _jwks_cache, published, now, fetchedAt, token, resp,
                    outcome, seen, found, issued, atFail, payload, repoVars >>

\* Lines 58-97 on the local jwks, for a token of the set toks.
ValidateFrom(t, toks) ==
    /\ pc[t] = "validate"
    /\ \E tok \in toks :
          /\ Bearer(t, tok)
          /\ End(t, Validate(tok, jwks[t], now))
          /\ payload' = [payload EXCEPT ![t] = Returned(tok, jwks[t], now)]
    /\ UNCHANGED << _jwks_cache, published, now, fetchedAt, resp, jwks,
                    seen, found, issued, atFail, repoVars >>

ValidateStep(t) == ValidateFrom(t, Tokens)

\* Time passes.
Tick ==
    /\ now < MaxTime
    /\ now' = now + 1
    /\ UNCHANGED << _jwks_cache, published, fetchedAt, pc, token, resp,
                    jwks, outcome, seen, found, issued, atFail, payload,
                    repoVars >>

\* The provider adds a signing key to the set it publishes.
Rotate ==
    /\ published = 1
    /\ published' = 2
    /\ UNCHANGED << _jwks_cache, now, fetchedAt, pc, token, resp, jwks,
                    outcome, seen, found, issued, atFail, payload, repoVars >>

Next ==
    \/ \E t \in Threads : Start(t)
    \/ \E t \in Threads : Check(t)
    \/ \E t \in Threads : Get(t)
    \/ \E t \in Threads : RespNetworkError(t)
    \/ \E t \in Threads : RespBadStatus(t)
    \/ \E t \in Threads : RespNotJson(t)
    \/ \E t \in Threads : RespJson(t)
    \/ \E t \in Threads : Store(t)
    \/ \E t \in Threads : Ret(t)
    \/ \E t \in Threads : ValidateStep(t)
    \/ Tick
    \/ Rotate

Spec == Init /\ [][Next]_vars

-----------------------------------------------------------------------------
(* Sequential calls: a request arrives only when no other is in progress, *)
(* and carries any token of SeqTokens.                                    *)

InProgress(t) == pc[t] \notin {"idle", "done"}

StartSeq(t) ==
    /\ \A u \in Threads : ~InProgress(u)
    /\ Start(t)

ValidateAny(t) == ValidateFrom(t, SeqTokens)

NextSeq ==
    \/ \E t \in Threads : StartSeq(t)
    \/ \E t \in Threads : Check(t)
    \/ \E t \in Threads : Get(t)
    \/ \E t \in Threads : RespNetworkError(t)
    \/ \E t \in Threads : RespBadStatus(t)
    \/ \E t \in Threads : RespNotJson(t)
    \/ \E t \in Threads : RespJson(t)
    \/ \E t \in Threads : Store(t)
    \/ \E t \in Threads : Ret(t)
    \/ \E t \in Threads : ValidateAny(t)
    \/ Tick
    \/ Rotate

SpecSeq == Init /\ [][NextSeq]_vars

-----------------------------------------------------------------------------
(* RepositorioPaciente.  Each method is one transaction on the table, and *)
(* the methods are called one after the other.                            *)

\* criar_paciente and criar: the row is inserted under a fresh id with
\* status ATIVO; the commit raises IntegrityError on a cpf that a row has.
Criar(c) ==
    LET id == Cardinality({i \in Ids : criado[i] # None}) + 1 IN
    /\ id \in Ids
    /\ IF CpfExiste(c.cpf)
       THEN /\ chamada' = Chamada("criar", id, "IntegrityError")
            /\ UNCHANGED << pacientes, criado, ultimo >>
       ELSE /\ pacientes' = [pacientes EXCEPT ![id] = ModeloPaciente(id, c)]
            /\ criado' = [criado EXCEPT ![id] =
                            [id |-> id, cpf |-> c.cpf,
                             data_nascimento |-> c.data_nascimento]]
            /\ chamada' = Chamada("criar", id, "paciente")
            /\ UNCHANGED ultimo
    /\ UNCHANGED authVars

\* editar (lines 27-38).
Editar(id, e) ==
    /\ IF Primeiro(id) = None
       THEN /\ chamada' = Chamada("editar", id, "False")
            /\ UNCHANGED pacientes
       ELSE /\ pacientes' = [pacientes EXCEPT
                               ![id].nome = e.nome,
                               ![id].telefone = e.telefone,
                               ![id].endereco = e.endereco,
                               ![id].email = e.email,
                               ![id].observacoes = e.observacoes]
            /\ chamada' = Chamada("editar", id, "True")
    /\ UNCHANGED << criado, ultimo >>
    /\ UNCHANGED authVars

\* Variant of Remover: the query has no filter on the id, so first() is the
\* first row of the table.
RemoverSemFiltro(id) ==
    LET com == {i \in Ids : pacientes[i] # None} IN
    /\ IF com = {}
       THEN /\ chamada' = Chamada("remover", id, "False")
            /\ UNCHANGED << pacientes, ultimo >>
       ELSE LET i == CHOOSE j \in com : \A k \in com : j <= k IN
            /\ pacientes' = [pacientes EXCEPT ![i].status = INATIVO]
            /\ ultimo' = [ultimo EXCEPT ![i] = "remover"]
            /\ chamada' = Chamada("remover", id, "True")
    /\ UNCHANGED criado
    /\ UNCHANGED authVars

\* remover (lines 40-47).
Remover(id) ==
    /\ IF Primeiro(id) = None
       THEN /\ chamada' = Chamada("remover", id, "False")
            /\ UNCHANGED << pacientes, ultimo >>
       ELSE /\ pacientes' = [pacientes EXCEPT ![id].status = INATIVO]
            /\ ultimo' = [ultimo EXCEPT ![id] = "remover"]
            /\ chamada' = Chamada("remover", id, "True")
    /\ UNCHANGED criado
    /\ UNCHANGED authVars

\* ativar (lines 49-55).
Ativar(id) ==
    /\ IF Primeiro(id) = None
       THEN /\ chamada' = Chamada("ativar", id, "False")
            /\ UNCHANGED << pacientes, ultimo >>
       ELSE /\ pacientes' = [pacientes EXCEPT ![id].status = ATIVO]
            /\ ultimo' = [ultimo EXCEPT ![id] = "ativar"]
            /\ chamada' = Chamada("ativar", id, "True")
    /\ UNCHANGED criado
    /\ UNCHANGED authVars

NextRepo ==
    \/ \E c \in Cadastros : Criar(c)
    \/ \E id \in AnyId, e \in Edicoes : Editar(id, e)
    \/ \E id \in AnyId : Remover(id)
    \/ \E id \in AnyId : Ativar(id)

SpecRepo == Init /\ [][NextRepo]_vars

-----------------------------------------------------------------------------
(* Vocabulary of the claims. *)

Done(t)     == pc[t] = "done"
Rejected401 == {"401 chave", "401 invalido"}
InFlight    == {t \in Threads : pc[t] = "inflight"}

\* The call of request t sent a request for the key set; it came back with
\* a key set (not with an exception, nor with a body that is no key set).
Fetched(t)         == issued[t] > 0
KeySetRetrieved(t) == jwks[t] # None /\ IsKeySet(jwks[t])

\* The bodies the provider serves.
Served == KeySets \cup MalformedBodies

-----------------------------------------------------------------------------
\* C1: when several calls find the cache empty together, one fetch is issued
\* and shared: at no time are two fetches of the key set in flight together.
C1_SingleFlight == Cardinality(InFlight) <= 1

\* C2: a lookup of a key identifier that the cached set lacks, on a set older
\* than TTL or never fetched, makes exactly one refresh attempt and is decided
\* against the refreshed set; a token signed with a key added after the last
\* fetch is accepted.
C2_StaleMissRefreshes ==
    \A t \in Threads :
       /\ (Done(t) /\ seen[t] = "empty") => issued[t] = 1
       /\ (Done(t) /\ seen[t] = "stale" /\ token[t].wf /\ IsKeySet(found[t])
                   /\ ~Holds(found[t], token[t].kid)) => issued[t] = 1

\* C3: a fetch that raises (network error, non-success status, body that does
\* not parse) leaves the cached key set exactly as it was.
C3_FailedFetchKeepsCache ==
    [][ (\E t \in Threads : pc[t] = "inflight" /\ pc'[t] = "done")
           => /\ _jwks_cache' = _jwks_cache
              /\ fetchedAt' = fetchedAt ]_vars

\* C3, the case: a fetch raised while a key set was cached, and a call that
\* reads the cache after it still resolves a key the set holds.
C3_Witness ==
    \E t, u \in Threads :
       /\ Done(t) /\ outcome[t] = "503"
       /\ atFail[t] # None /\ IsKeySet(atFail[t]) /\ _jwks_cache = atFail[t]
       /\ Done(u) /\ jwks[u] = atFail[t] /\ outcome[u] = "payload"

\* C4: every failure of the key-set retrieval (network error, timeout,
\* non-success status, body that is not JSON, key records without the expected
\* fields) ends the call with the 503 of line 100.
C4_RetrievalFailureIs503 ==
    \A t \in Threads :
       (Done(t) /\ Fetched(t) /\ token[t].wf /\ ~KeySetRetrieved(t))
          => outcome[t] = "503"

\* C5: a token whose header declares an algorithm other than RS256 ends in a
\* 401, whatever the cache holds and whatever the key set contains.
C5_OtherAlgorithmIs401 ==
    \A t \in Threads :
       (Done(t) /\ token[t].wf /\ token[t].alg # "RS256")
          => outcome[t] \in Rejected401

\* The part of C5 that the code keeps: such a token is never accepted.
OtherAlgorithmNeverAccepted ==
    \A t \in Threads :
       (Done(t) /\ token[t].alg # "RS256") => outcome[t] # "payload"

\* C6: the checks run in the order structure, algorithm, key resolution,
\* signature, time claims, issuer and audience, and the first failure is the
\* one reported: a token without the JWT structure or with another algorithm
\* is rejected with a 401 before any key lookup, so its call sends no request
\* for the key set and never ends in the 503.
C6_TokenChecksBeforeFetch ==
    \A t \in Threads :
       (Done(t) /\ (~token[t].wf \/ token[t].alg # "RS256"))
          => /\ issued[t] = 0
             /\ outcome[t] \in Rejected401

\* C7: the two failures of key resolution are never confused: a key set that
\* was retrieved and lacks the token's key identifier gives the 401 of the
\* missing key, a key set that could not be retrieved gives the 503, and
\* neither gives the other's answer.
C7_KeyFailuresApart ==
    \A t \in Threads :
       (Done(t) /\ token[t].wf) =>
          /\ (KeySetRetrieved(t) /\ ~Holds(jwks[t], token[t].kid))
                => outcome[t] = "401 chave"
          /\ ~KeySetRetrieved(t) => outcome[t] = "503"

\* C8: the key set a lookup reads is one whole snapshot, the one stored before
\* a refresh or the one stored by it, never a mixture and never a partly
\* written set; the cache changes only by being rebound to a whole new set,
\* and a lookup in progress keeps the set it started with.
C8_SnapshotWhole ==
    /\ [](/\ _jwks_cache # None => _jwks_cache \in Served
          /\ \A t \in Threads : jwks[t] # None => jwks[t] \in Served)
    /\ [][ /\ \A t \in Threads :
                (pc[t] = "validate" /\ pc'[t] = "validate")
                   => jwks'[t] = jwks[t]
           /\ _jwks_cache' # _jwks_cache =>
                \E t \in Threads :
                   pc[t] = "store" /\ _jwks_cache' = resp[t] ]_vars

\* C8, the case: a lookup in progress holds the set stored before a refresh
\* while the cache already holds the set the refresh stored.
C8_Witness ==
    \E t \in Threads :
       /\ pc[t] = "validate"
       /\ jwks[t] \in KeySets
       /\ _jwks_cache \in KeySets
       /\ jwks[t] # _jwks_cache

\* C9: while the cached key set is within TTL of its fetch, a call sends no
\* request: every lookup that finds it, for a key it holds or not, is answered
\* from the cached set alone.
C9_FreshCacheNoFetch ==
    \A t \in Threads :
       seen[t] = "fresh" =>
          /\ issued[t] = 0
          /\ pc[t] \in {"validate", "done"}
          /\ jwks[t] = found[t]
          /\ Done(t) => outcome[t] # "503"

\* C9, the case: a lookup of a key identifier the fresh set lacks has ended
\* without a request.
C9_Witness ==
    \E t \in Threads :
       /\ Done(t) /\ seen[t] = "fresh" /\ IsKeySet(found[t])
       /\ token[t].wf /\ ~Holds(found[t], token[t].kid)
       /\ issued[t] = 0 /\ outcome[t] = "401 chave"

\* C10: a lookup of a key identifier that the cached key set holds succeeds
\* from the cache even when the set is older than TTL: no request is sent, so
\* it never ends in the 503, and the key is resolved.
C10_StaleHitServedLocally ==
    \A t \in Threads :
       (Done(t) /\ seen[t] = "stale" /\ IsKeySet(found[t])
                /\ token[t].wf /\ Holds(found[t], token[t].kid))
          => /\ issued[t] = 0
             /\ jwks[t] = found[t]
             /\ outcome[t] \in {"payload", "401 invalido"}
             /\ token[t] = TokGood1 => outcome[t] = "payload"

\* C10, the case: a token whose key the stale set holds has been accepted.
C10_Witness ==
    \E t \in Threads :
       /\ Done(t) /\ seen[t] = "stale" /\ IsKeySet(found[t])
       /\ Holds(found[t], token[t].kid)
       /\ issued[t] = 0 /\ outcome[t] = "payload"

-----------------------------------------------------------------------------
(* Claims on the verification of the token, under sequential calls. *)

\* The token is signed by the key the set b holds under the token's kid.
SignedByKeyOf(tok, b) ==
    \E j \in 1 .. Len(b.keys) :
       b.keys[j].kid = tok.kid /\ b.keys[j].n = tok.sig

\* The token has the structure, the algorithm, the issuer and the audience
\* that validar_token expects.
WellClaimed(tok) ==
    /\ tok.wf
    /\ tok.alg = "RS256"
    /\ tok.iss = Issuer
    /\ Audience \in tok.aud

\* C11: a call that holds a key set, cached or fetched, and carries an RS256
\* token signed by a key of that set, with the expected issuer, an audience
\* that contains the expected one and an expiry still ahead, returns the
\* token's claims as they are, and raises nothing.
C11_ValidTokenReturnsClaims ==
    \A t \in Threads :
       ( /\ Done(t)
         /\ KeySetRetrieved(t)
         /\ WellClaimed(token[t])
         /\ SignedByKeyOf(token[t], jwks[t])
         /\ now < token[t].exp )
       => /\ outcome[t] = "payload"
          /\ payload[t] = Claims(token[t])

\* One call has fetched the key set and a later one has found it cached;
\* both carried a good token, the later one with a second audience.
C11_Witness ==
    \E t, u \in Threads :
       /\ Done(t) /\ issued[t] = 1 /\ token[t] = TokGood1
       /\ payload[t] = Claims(TokGood1)
       /\ Done(u) /\ issued[u] = 0 /\ seen[u] # "empty"
       /\ token[u] = TokGood2 /\ jwks[u] = KS2
       /\ payload[u] = Claims(TokGood2)

\* The failure kind the claims give a rejected token of SeqTokens, checked on
\* the key set b: the signature first, then the identity claims, and expiry
\* for a token with nothing else wrong.
FailureKind(tok, b) ==
    IF ~SignedByKeyOf(tok, b) THEN "InvalidSignature"
    ELSE IF tok.iss # Issuer THEN "IssuerMismatch"
    ELSE IF Audience \notin tok.aud THEN "AudienceMismatch"
    ELSE "TokenExpired"

\* A call that held a key set with the token's key and rejected the token.
RejectedOnKey(t) ==
    /\ Done(t)
    /\ KeySetRetrieved(t)
    /\ token[t] \in SeqTokens
    /\ Holds(jwks[t], token[t].kid)
    /\ outcome[t] # "payload"

\* C12: a token that differs from a verifying one in its issuer, audience,
\* signature or expiry is rejected with the failure kind of that change, and
\* the kinds are told apart in what the call returns: two rejections of
\* different kinds never end the same way, and a signature mismatch is the
\* kind whatever the claims are.
C12_SpecificFailureKinds ==
    \A t, u \in Threads :
       (RejectedOnKey(t) /\ RejectedOnKey(u))
       => ( (FailureKind(token[t], jwks[t]) = FailureKind(token[u], jwks[u]))
            <=> (outcome[t] = outcome[u]) )

\* A call validates a token that is good but for its expiry, on a key set
\* that holds its key.
ValidatesOnExpiry(t) ==
    /\ pc[t] = "validate" /\ pc'[t] = "done"
    /\ KeySetRetrieved(t)
    /\ WellClaimed(token'[t])
    /\ SignedByKeyOf(token'[t], jwks[t])

\* C13: a token with expiry E, under the tolerance S, is accepted at every
\* time before E + S and rejected as expired from E + S on; and once a call
\* has rejected it as expired, no later call accepts it.
C13_ExpiryBoundary ==
    /\ [][ \A t \in Threads :
             ValidatesOnExpiry(t)
             => ( (outcome'[t] = "payload")
                  <=> (now < token'[t].exp + Leeway) ) ]_vars
    /\ [](\A t, u \in Threads :
            ( /\ t < u
              /\ RejectedOnKey(t) /\ Done(u) /\ KeySetRetrieved(u)
              /\ token[t] = TokShort /\ token[u] = TokShort )
            => outcome[u] # "payload")

-----------------------------------------------------------------------------
(* The life of the cache under sequential calls. *)

\* A fetch of request t ends by an exception.
FetchFails(t) == pc[t] = "inflight" /\ pc'[t] = "done"

\* C14: _jwks_cache is None until a fetch succeeds, a fetch that fails
\* leaves it None, its only change is from None to the body a fetch
\* returned, and once it is set no call sends a request, replaces it or
\* clears it: every call that holds a key set holds the cached one.
C14_CacheSetOnce ==
    /\ []( /\ (\A t \in Threads : issued[t] = 0) => _jwks_cache = None
           /\ \A t \in Threads :
                 (Done(t) /\ jwks[t] # None) => jwks[t] = _jwks_cache )
    /\ [][ /\ \A t \in Threads :
                (FetchFails(t) /\ _jwks_cache = None) => _jwks_cache' = None
           /\ _jwks_cache' # _jwks_cache
                 => /\ _jwks_cache = None
                    /\ \E t \in Threads :
                          pc[t] = "store" /\ _jwks_cache' = resp[t]
           /\ _jwks_cache # None
                 => /\ _jwks_cache' = _jwks_cache
                    /\ issued' = issued ]_vars

\* One call has fetched the first key set; the provider has published the
\* second since and time has passed; a later call, with a token signed by
\* the new key, was decided on the cached first set without a request.
C14_Witness ==
    \E t, u \in Threads :
       /\ t < u
       /\ Done(t) /\ issued[t] = 1 /\ jwks[t] = KS1
       /\ Done(u) /\ issued[u] = 0 /\ jwks[u] = KS1
       /\ _jwks_cache = KS1 /\ published = 2 /\ now > fetchedAt
       /\ token[u] = TokGood2 /\ outcome[u] = "401 chave"

-----------------------------------------------------------------------------
(* The patients' repository. *)

\* The columns editar does not write.
ForaDaEdicao == {"id", "cpf", "data_nascimento", "status"}

\* What the call just made, on a row that exists, may have changed in it.
SoOSeu(c) ==
    LET antes  == pacientes[c.id]
        depois == pacientes'[c.id]
    IN  CASE c.op = "remover" -> depois = [antes EXCEPT !.status = INATIVO]
          [] c.op = "ativar"  -> depois = [antes EXCEPT !.status = ATIVO]
          [] c.op = "editar"  -> \A f \in ForaDaEdicao : depois[f] = antes[f]

\* C15: editar, remover and ativar on an id without a patient return False
\* and change no row; on an id with a patient they return True and change
\* that row alone, remover and ativar its status alone, editar none of id,
\* cpf, data_nascimento and status.  So every row keeps the id, cpf and
\* data_nascimento of its creation, and its status is that of the last of
\* remover and ativar applied to it, ATIVO when there was none.
C15_RepositoryFrame ==
    /\ [][ LET c == chamada' IN
           c.op \in {"editar", "remover", "ativar"}
           => IF Primeiro(c.id) = None
              THEN c.ret = "False" /\ pacientes' = pacientes
              ELSE /\ c.ret = "True"
                   /\ \A j \in Ids \ {c.id} : pacientes'[j] = pacientes[j]
                   /\ SoOSeu(c) ]_vars
    /\ [](\A i \in Ids :
            pacientes[i] # None
            => /\ pacientes[i].id = criado[i].id
               /\ pacientes[i].cpf = criado[i].cpf
               /\ pacientes[i].data_nascimento = criado[i].data_nascimento
               /\ pacientes[i].status =
                     IF ultimo[i] = "remover" THEN INATIVO ELSE ATIVO)

\* Two patients exist; the first has been edited, removed and activated
\* again, the second removed, and the last call, on an id without a
\* patient, returned False.
C15_Witness ==
    /\ pacientes[1] # None /\ pacientes[2] # None
    /\ pacientes[1].nome = "Eva" /\ pacientes[1].cpf = "111"
    /\ pacientes[1].status = ATIVO /\ ultimo[1] = "ativar"
    /\ pacientes[2].status = INATIVO
    /\ chamada = Chamada("editar", 0, "False")

====
